---- MODULE Spec2Model ----
(***************************************************************************)
(* Model of the Vector helper class of swarm/vectors.py and                *)
(* sarsim/vectors.py (a numpy.ndarray subclass for 2D particle physics).   *)
(*                                                                         *)
(* Numbers.  The code computes in IEEE doubles.  The model computes in     *)
(* fixed point: a number r is represented by the integer nearest to        *)
(* r * Scale, and every numpy operation (division, norm, dot, arccos,      *)
(* arctan2, degrees) returns the representable value nearest to its exact  *)
(* result, as the floating point operation does.  The rounding is what     *)
(* makes the dot product of a unit vector with itself come out one unit    *)
(* in the last place above or below 1, which is the case the NaN branch    *)
(* of Vector.angle exists for.                                             *)
(***************************************************************************)
EXTENDS Integers, Sequences, FiniteSets

\* Resolution of the number model: 1.0 is represented by Scale.
Scale == 100

\* Caller inputs: coordinates passed to arrp are integers in -MaxCoord..MaxCoord.
MaxCoord == 2

\* Arguments of rand are integers in 0..MaxRand.
MaxRand == 2

\* Arrays passed to arr have 1..MaxShape elements.
MaxShape == 3

(***************************************************************************)
(* Arithmetic helpers (rounding to nearest, half away from zero).          *)
(***************************************************************************)
Abs(a) == IF a < 0 THEN -a ELSE a

Sgn(a) == IF a > 0 THEN 1 ELSE IF a < 0 THEN -1 ELSE 0

RoundDiv(a, b) == Sgn(a) * ((2 * Abs(a) + b) \div (2 * b))

RECURSIVE FloorSqrt(_, _, _)
FloorSqrt(n, lo, hi) ==
    IF lo >= hi THEN lo
    ELSE LET mid == (lo + hi + 1) \div 2
         IN  IF mid * mid <= n THEN FloorSqrt(n, mid, hi)
                               ELSE FloorSqrt(n, lo, mid - 1)

\* np.sqrt on the number model: the integer nearest to the square root of n.
Sqrt(n) ==
    LET r == FloorSqrt(n, 0, 46340)
    IN  IF n - r * r > r THEN r + 1 ELSE r

\* Working resolution of the trigonometric routines (two more digits).
Fine == 100 * Scale

HalfPiFine == RoundDiv(15708 * Fine, 10000)

\* pi/2 and pi on the number model (np.pi is the double nearest to pi).
HalfPi == RoundDiv(HalfPiFine * Scale, Fine)

Pi == 2 * HalfPi

MulFine(a, b) == RoundDiv(a * b, Fine)

\* arctan of w/Fine for 0 <= w <= tan(pi/8), by its Taylor series.
AtanSeries(w) ==
    LET w2 == MulFine(w, w)
        w3 == MulFine(w, w2)
        w5 == MulFine(w3, w2)
        w7 == MulFine(w5, w2)
        w9 == MulFine(w7, w2)
    IN  w - RoundDiv(w3, 3) + RoundDiv(w5, 5) - RoundDiv(w7, 7) + RoundDiv(w9, 9)

\* arctan of p/q for 0 <= p <= q, q > 0, at the working resolution.
AtanRatio(p, q) ==
    LET z == RoundDiv(p * Fine, q)
    IN  IF 1000 * z <= 414 * Fine
        THEN AtanSeries(z)
        ELSE RoundDiv(HalfPiFine, 2)
             - AtanSeries(RoundDiv((Fine - z) * Fine, Fine + z))

\* arctan of p/q for p, q >= 0, not both 0, at the working resolution.
AtanQuadrant(p, q) ==
    IF p <= q THEN AtanRatio(p, q) ELSE HalfPiFine - AtanRatio(q, p)

\* np.arctan2(y, x) on the number model, in radians * Scale.  The number
\* model has one zero: numpy's arctan2(-0.0, x) = -pi for x < 0 is Pi here.
arctan2(y, x) ==
    IF y = 0 THEN (IF x >= 0 THEN 0 ELSE Pi)
    ELSE IF x = 0 THEN Sgn(y) * HalfPi
    ELSE LET a == RoundDiv(AtanQuadrant(Abs(y), Abs(x)) * Scale, Fine)
         IN  Sgn(y) * (IF x > 0 THEN a ELSE Pi - a)

\* A float that may be NaN is a tuple: <<x>> for the number x, and the empty
\* tuple for NaN, which np.arccos returns for an argument outside [-1, 1].
NaN == << >>

np_isnan(x) == x = NaN

\* np.arccos(d) on the number model, in radians * Scale.
arccos(d) ==
    IF Abs(d) > Scale THEN NaN
    ELSE <<arctan2(Sqrt(Scale * Scale - d * d), d)>>

\* np.degrees(angle): angle * 180 / pi.
degrees(angle) == RoundDiv(angle * 180 * Scale, Pi)

(***************************************************************************)
(* Values and call outcomes.                                               *)
(***************************************************************************)
\* An optional argument is a tuple: <<x>> when x is passed, None when it is not.
None == << >>

\* The two copies of the class.
Klasses == {"swarm", "sarsim"}

\* What np.allclose returns depends on the numpy the program runs on: a
\* numpy.bool_ (which has an all() method) or a plain Python bool (which has
\* none).
Builds == {"numpy.bool_", "bool"}

\* What a call returns: a number (num), a vector (vec), a truth value (bool)
\* or, when it raises, nothing.  kind tells which field holds it.
Num(n) == [kind |-> "num", num |-> n, vec |-> << >>, bool |-> FALSE]

Vec(v) == [kind |-> "vec", num |-> 0, vec |-> v, bool |-> FALSE]

Bool(b) == [kind |-> "bool", num |-> 0, vec |-> << >>, bool |-> b]

NoValue == [kind |-> "none", num |-> 0, vec |-> << >>, bool |-> FALSE]

\* A call that returns ret, leaving the receiver's array holding self and the
\* argument's array holding other; shares names the operands whose storage
\* the returned array shares.
Return(ret, self, other, shares) ==
    [exc |-> "none", ret |-> ret, self |-> self, other |-> other,
     shares |-> shares]

\* A call that raises exc.
Raise(exc, self, other) ==
    [exc |-> exc, ret |-> NoValue, self |-> self, other |-> other,
     shares |-> {}]

(***************************************************************************)
(* numpy array primitives the class is built on.                           *)
(***************************************************************************)
\* np.zeros(n)
np_zeros(n) == [i \in 1..n |-> 0]

\* np.zeros_like(a), and the shape of np.empty_like(a)
np_zeros_like(a) == [i \in DOMAIN a |-> 0]

\* np.array(coords) for a tuple of Python integers
np_array(coords) == [i \in DOMAIN coords |-> coords[i] * Scale]

RECURSIVE SumSquares(_, _)
SumSquares(a, n) == IF n = 0 THEN 0 ELSE a[n] * a[n] + SumSquares(a, n - 1)

\* np.linalg.norm(a)
np_linalg_norm(a) == Sqrt(SumSquares(a, Len(a)))

\* np.dot(a, b) of two 2-element arrays
np_dot(a, b) == RoundDiv(a[1] * b[1] + a[2] * b[2], Scale)

\* a - b, element by element
Minus(a, b) == [i \in DOMAIN a |-> a[i] - b[i]]

\* a / s for a scalar s, element by element
DivScalar(a, s) == [i \in DOMAIN a |-> RoundDiv(a[i] * Scale, s)]

\* np.allclose(a, b): abs(a - b) <= atol + rtol * abs(b) in every element,
\* with numpy's defaults rtol = 1e-5 and atol = 1e-8.
np_allclose(a, b) ==
    \A i \in DOMAIN a :
        Abs(a[i] - b[i]) <= (Scale + 1000 * Abs(b[i])) \div 100000000

\* The outcomes of np.random.randint(low, high, size=2); with high None the
\* range is [0, low).  An empty range is a ValueError.
np_random_randint(low, high) ==
    LET lo == IF high = None THEN 0 ELSE low
        hi == IF high = None THEN low ELSE high[1]
    IN  IF lo >= hi
        THEN [exc |-> "ValueError", arrays |-> {}]
        ELSE [exc |-> "none",
              arrays |-> {<<a * Scale, b * Scale>> :
                             a \in lo..(hi - 1), b \in lo..(hi - 1)}]

(***************************************************************************)
(* class Vector(np.ndarray).  A vector is the tuple of its components.     *)
(* Where the two copies of the class have the same text, one operator      *)
(* models both; klass is a parameter where they differ.                    *)
(***************************************************************************)
\* Mutant of arr: the constructor checks the shape of its input.
arr_shape_checked(klass, array) ==
    IF Len(array) = 2
    THEN Return(Vec(array), None, None, {"array"})
    ELSE Raise("InvalidShapeError", None, None)

\* Vector.arr(array): array.view(klass).  The view has the array's shape,
\* whatever it is, and shares the array's storage.
arr(klass, array) == Return(Vec(array), None, None, {"array"})

\* Vector.zero(): klass.arr(np.zeros(2)).
zero(klass) == [arr(klass, np_zeros(2)) EXCEPT !.shares = {}]

\* Vector.arrp(*coords): klass.arr(np.array(coords)).
arrp(klass, coords) == [arr(klass, np_array(coords)) EXCEPT !.shares = {}]

\* Mutant of rand: the upper end of the range is included, as it is by
\* Python's random.randint.
rand_inclusive(klass, low, high) ==
    LET drawn == IF high = None
                 THEN np_random_randint(low + 1, None)
                 ELSE np_random_randint(low, <<high[1] + 1>>)
    IN  IF drawn.exc # "none"
        THEN {Raise(drawn.exc, None, None)}
        ELSE {Return(Vec(a), None, None, {}) : a \in drawn.arrays}

\* Vector.rand(low, high): klass.arr(np.random.randint(low, high, size=2)).
rand(klass, low, high) ==
    LET drawn == np_random_randint(low, high)
    IN  IF drawn.exc # "none"
        THEN {Raise(drawn.exc, None, None)}
        ELSE {[arr(klass, a) EXCEPT !.shares = {}] : a \in drawn.arrays}

\* Vector.length: np.linalg.norm(self).
length(self) == np_linalg_norm(self)

\* Mutant of unit: divides by the squared length, np.dot(self, self).
unit_by_squared_length(self) ==
    IF np_linalg_norm(self) > 0
    THEN DivScalar(self, RoundDiv(SumSquares(self, Len(self)), Scale))
    ELSE np_zeros_like(self)

\* Vector.unit: self / self.length if self.length > 0, else zeros.
unit(self) ==
    IF length(self) > 0
    THEN DivScalar(self, length(self))
    ELSE np_zeros_like(self)

\* b[i] = value (0-based i) on the local store of a method.
SetItem(store, name, i, value) ==
    [store EXCEPT ![name] = [@ EXCEPT ![i + 1] = value]]

\* Mutant of orthogonal: b is the receiver itself, not a new array.
orthogonal_in_place(self) ==
    LET s0 == [self |-> self, u |-> unit(self)]
        s1 == SetItem(s0, "self", 0, -s0.u[2])
        s2 == SetItem(s1, "self", 1, s1.u[1])
    IN  Return(Vec(s2.self), s2.self, None, {"self"})

\* Mutant of orthogonal: b[1] = u[1], an index slip.
orthogonal_index_slip(self) ==
    LET s0 == [self |-> self, u |-> unit(self), b |-> np_zeros_like(unit(self))]
        s1 == SetItem(s0, "b", 0, -s0.u[2])
        s2 == SetItem(s1, "b", 1, s1.u[2])
    IN  Return(Vec(s2.b), s2.self, None, {})

\* Vector.orthogonal, statement by statement on the arrays it touches: the
\* receiver, u = self.unit and b = np.empty_like(u).  Both slots of b are
\* written before b is returned.
orthogonal(self) ==
    LET s0 == [self |-> self, u |-> unit(self), b |-> np_zeros_like(unit(self))]
        s1 == SetItem(s0, "b", 0, -s0.u[2])
        s2 == SetItem(s1, "b", 1, s1.u[1])
    IN  Return(Vec(s2.b), s2.self, None, {})

\* self == other.  swarm overrides __eq__ with np.allclose(self, other), a
\* scalar whose type is the build's; sarsim inherits ndarray's element-wise
\* comparison.
Vector_eq(klass, build, self, other) ==
    IF klass = "swarm"
    THEN [type |-> build, all |-> np_allclose(self, other)]
    ELSE [type |-> "ndarray", all |-> \A i \in DOMAIN self : self[i] = other[i]]

\* Whether the result of == has an all() method.
HasAll(e) == e.type # "bool"

\* angle_radians(self, other), the inner function of Vector.angle.
angle_radians(klass, build, self, other) ==
    LET a == arccos(np_dot(unit(self), unit(other)))
        e == Vector_eq(klass, build, unit(self), unit(other))
    IN  IF np_isnan(a)
        THEN IF ~HasAll(e) THEN [exc |-> "AttributeError", val |-> 0]
             ELSE IF e.all THEN [exc |-> "none", val |-> 0]
             ELSE [exc |-> "none", val |-> Pi]
        ELSE [exc |-> "none", val |-> a[1]]

\* Vector.angle(other, degrees) on one build.
angle_on(klass, build, self, other, deg) ==
    LET r == angle_radians(klass, build, self, other)
    IN  IF r.exc # "none" THEN Raise(r.exc, self, other)
        ELSE IF deg THEN Return(Num(degrees(r.val)), self, other, {})
        ELSE Return(Num(r.val), self, other, {})

\* Vector.angle(other, degrees): its outcomes over the builds.
angle(klass, self, other, deg) ==
    {angle_on(klass, build, self, other, deg) : build \in Builds}

\* Vector.heading(degrees): self.angle(Vector.arrp(1,0), degrees).  Only swarm
\* defines it.
heading(self, deg) ==
    {[o EXCEPT !.other = None] :
        o \in angle("swarm", self, arrp("swarm", <<1, 0>>).ret.vec, deg)}

\* Mutant of relative_heading: the heading is added after the conversion to
\* degrees.
relative_heading_converts_first(self, other, hdg, deg) ==
    LET delta  == Minus(other, self)
        angle0 == arctan2(-delta[2], delta[1])
        angle1 == IF deg THEN degrees(angle0) ELSE angle0
    IN  Return(Num(IF hdg # None THEN angle1 + hdg[1] ELSE angle1),
               self, other, {})

\* Vector.relative_heading(other, heading, degrees).  Only swarm defines it.
relative_heading(self, other, hdg, deg) ==
    LET delta  == Minus(other, self)
        angle0 == arctan2(-delta[2], delta[1])
        angle1 == IF hdg # None THEN angle0 + hdg[1] ELSE angle0
    IN  IF deg THEN Return(Num(degrees(angle1)), self, other, {})
        ELSE Return(Num(angle1), self, other, {})

\* Vector.distance(other): np.linalg.norm(self - other).
distance(self, other) == np_linalg_norm(Minus(self, other))

\* Vector.__eq__(other) of swarm: np.allclose(self, other).
eq(self, other) == np_allclose(self, other)

\* Vector.__ne__(other) of swarm: not self == other.
ne(self, other) == ~eq(self, other)

(***************************************************************************)
(* The caller.  It holds one vector, self, calls a constructor or a method *)
(* of self (with an argument built by arrp, or self itself), and either    *)
(* keeps the returned vector as its new self or drops the result.          *)
(***************************************************************************)
VARIABLES self, pc, last

vars == <<self, pc, last>>

Coords == -MaxCoord..MaxCoord

\* The arrays the caller passes to arr.
RawArrays == {np_array(c) : c \in UNION {[1..n -> 1..2] : n \in 1..MaxShape}}

\* The vectors the caller passes as other: any arrp(x, y), or self.
Others == {np_array(<<x, y>>) : x \in Coords, y \in Coords} \cup {self}

RandLows == 0..MaxRand

RandHighs == {None} \cup {<<h>> : h \in 0..MaxRand}

\* The heading offsets the caller passes to relative_heading, in radians.
Headings == {None, <<HalfPi>>}

\* The methods expect the 2-component vectors the constructors zero, arrp
\* and rand build.
WellFormed(v) == Len(v) = 2

\* The caller is between calls and holds a vector it can call a method of.
CanCall == pc = "idle" /\ WellFormed(self)

NoArgs == [other |-> None]

NoCall == [op |-> "none", klass |-> "none", args |-> NoArgs,
           out |-> Return(NoValue, None, None, {})]

\* A call of a class method: there is no receiver.
CallClass(op, klass, args, out) ==
    /\ pc' = "returned"
    /\ last' = [op |-> op, klass |-> klass, args |-> args, out |-> out]
    /\ UNCHANGED self

\* A call of a method of self: afterwards the receiver's array holds out.self.
CallSelf(op, klass, args, out) ==
    /\ pc' = "returned"
    /\ last' = [op |-> op, klass |-> klass, args |-> args, out |-> out]
    /\ self' = out.self

CallZero ==
    /\ pc = "idle"
    /\ \E klass \in Klasses : CallClass("zero", klass, NoArgs, zero(klass))

CallArrp ==
    /\ pc = "idle"
    /\ \E klass \in Klasses, x \in Coords, y \in Coords :
           CallClass("arrp", klass, [other |-> None, coords |-> <<x, y>>],
                     arrp(klass, <<x, y>>))

CallArr ==
    /\ pc = "idle"
    /\ \E klass \in Klasses, array \in RawArrays :
           CallClass("arr", klass, [other |-> None, array |-> array],
                     arr(klass, array))

CallRand ==
    /\ pc = "idle"
    /\ \E klass \in Klasses, low \in RandLows, high \in RandHighs :
           \E out \in rand(klass, low, high) :
               CallClass("rand", klass,
                         [other |-> None, low |-> low, high |-> high], out)

CallLength ==
    /\ CanCall
    /\ \E klass \in Klasses :
           CallSelf("length", klass, NoArgs,
                    Return(Num(length(self)), self, None, {}))

CallUnit ==
    /\ CanCall
    /\ \E klass \in Klasses :
           CallSelf("unit", klass, NoArgs,
                    Return(Vec(unit(self)), self, None, {}))

CallOrthogonal ==
    /\ CanCall
    /\ \E klass \in Klasses :
           CallSelf("orthogonal", klass, NoArgs, orthogonal(self))

CallAngle ==
    /\ CanCall
    /\ \E klass \in Klasses, other \in Others, deg \in BOOLEAN :
           \E out \in angle(klass, self, other, deg) :
               CallSelf("angle", klass, [other |-> other, degrees |-> deg], out)

CallHeading ==
    /\ CanCall
    /\ \E deg \in BOOLEAN :
           \E out \in heading(self, deg) :
               CallSelf("heading", "swarm", [other |-> None, degrees |-> deg], out)

CallRelativeHeading ==
    /\ CanCall
    /\ \E other \in Others, hdg \in Headings, deg \in BOOLEAN :
           CallSelf("relative_heading", "swarm",
                    [other |-> other, heading |-> hdg, degrees |-> deg],
                    relative_heading(self, other, hdg, deg))

CallDistance ==
    /\ CanCall
    /\ \E klass \in Klasses, other \in Others :
           CallSelf("distance", klass, [other |-> other],
                    Return(Num(distance(self, other)), self, other, {}))

CallEq ==
    /\ CanCall
    /\ \E other \in Others :
           CallSelf("eq", "swarm", [other |-> other],
                    Return(Bool(eq(self, other)), self, other, {}))

CallNe ==
    /\ CanCall
    /\ \E other \in Others :
           CallSelf("ne", "swarm", [other |-> other],
                    Return(Bool(ne(self, other)), self, other, {}))

\* The caller keeps the returned vector: v = v.unit, v = Vector.arrp(1, 2).
Keep ==
    /\ pc = "returned"
    /\ last.out.ret.kind = "vec"
    /\ self' = last.out.ret.vec
    /\ pc' = "idle"
    /\ last' = NoCall

\* The caller drops the result, or handles the exception.
Discard ==
    /\ pc = "returned"
    /\ pc' = "idle"
    /\ last' = NoCall
    /\ UNCHANGED self

Init ==
    /\ self = zero("swarm").ret.vec
    /\ pc = "idle"
    /\ last = NoCall

Next ==
    \/ CallZero
    \/ CallArrp
    \/ CallArr
    \/ CallRand
    \/ CallLength
    \/ CallUnit
    \/ CallOrthogonal
    \/ CallAngle
    \/ CallHeading
    \/ CallRelativeHeading
    \/ CallDistance
    \/ CallEq
    \/ CallNe
    \/ Keep
    \/ Discard

Spec == Init /\ [][Next]_vars

(***************************************************************************)
(* Properties.  They are stated of the call the caller has just made:      *)
(* last holds its class, arguments and outcome, self the receiver.         *)
(***************************************************************************)
Returned == pc = "returned"

\* The instance methods of the class.
Methods == {"length", "unit", "orthogonal", "angle", "heading",
            "relative_heading", "distance", "eq", "ne"}

Neg(v) == [i \in DOMAIN v |-> -v[i]]

\* The error arccos takes from one unit in the last place of an argument next
\* to 1, in degrees: the accuracy to which an angle of 0 or 180 is computed.
AngleTolerance == degrees(arccos(Scale - 1)[1])

\* C1 (as claimed): arr fails with an InvalidShapeError whenever the input does
\* not have exactly 2 elements, and no vector with a component count other
\* than 2 is ever returned to the caller.
C1_InvalidShapeRejected ==
    /\ (last.op = "arr" /\ Len(last.args.array) # 2)
           => last.out.exc = "InvalidShapeError"
    /\ last.out.ret.kind = "vec" => Len(last.out.ret.vec) = 2

\* C1 (amended): arr performs no shape check and never fails: it returns a
\* view holding exactly the components of its input, so the vector has 2
\* components exactly when the input has 2; zero, arrp(x, y) and rand return
\* vectors of exactly 2 components.
C1_ArrReturnsViewOfAnyShape ==
    /\ last.op = "arr" =>
           /\ last.out.exc = "none"
           /\ last.out.ret = Vec(last.args.array)
           /\ "array" \in last.out.shares
    /\ (last.op \in {"zero", "arrp", "rand"} /\ last.out.exc = "none") =>
           (last.out.ret.kind = "vec" /\ Len(last.out.ret.vec) = 2)

\* C1 witness: arr was given a 3-element array and returned a vector.
C1_Witness ==
    /\ last.op = "arr"
    /\ Len(last.args.array) = 3
    /\ last.out.exc = "none"
    /\ Len(last.out.ret.vec) = 3

\* C2: every operation other than an invalid-shape construction returns a
\* well-defined result and never raises, for every well-formed input:
\* zero vectors, identical or opposite vectors on the NaN branch of angle,
\* and any integer arguments of rand.
C2_NeverRaises ==
    (/\ Returned
     /\ ~(last.op = "arr" /\ Len(last.args.array) # 2))
        => (last.out.exc = "none" /\ last.out.ret.kind # "none")

\* C3: unit returns the vector divided by its length when the length is
\* positive, and then the length of the result is 1 to within two units in the
\* last place; unit of a vector of length 0 is the zero vector.
C3_UnitHasLengthOne ==
    (Returned /\ last.op = "unit") =>
        /\ last.out.exc = "none"
        /\ last.out.ret.kind = "vec"
        /\ IF length(self) > 0
           THEN /\ last.out.ret.vec = DivScalar(self, length(self))
                /\ Abs(length(last.out.ret.vec) - Scale) <= 2
           ELSE last.out.ret.vec = zero(last.klass).ret.vec

\* C3 witness: unit was taken of a vector off the axes, whose components do
\* not divide evenly by its length.
C3_Witness ==
    /\ Returned
    /\ last.op = "unit"
    /\ self[1] # 0
    /\ self[2] # 0
    /\ length(self) # Scale
    /\ last.out.ret.kind = "vec"

\* C4: for every nonzero v, angle(v, v) is 0 degrees and angle(v, -v) is 180
\* degrees (to the accuracy of arccos), whether arccos or the NaN fallback
\* produces the result.
C4_SelfAngleZeroOppositeAngle180 ==
    (Returned /\ last.op = "angle" /\ last.args.degrees /\ length(self) > 0) =>
        /\ last.args.other = self =>
               /\ last.out.exc = "none"
               /\ Abs(last.out.ret.num) <= AngleTolerance
        /\ last.args.other = Neg(self) =>
               /\ last.out.exc = "none"
               /\ Abs(last.out.ret.num - 180 * Scale) <= AngleTolerance

\* C5: no method mutates its receiver or its argument, and each vector a
\* method returns is a new instance: across every call of a method the
\* receiver's and the argument's components are unchanged and the returned
\* vector shares no storage with them.
C5_MethodsDoNotMutate ==
    [][(pc = "idle" /\ last'.op \in Methods) =>
           /\ self' = self
           /\ last'.out.self = self
           /\ last'.out.other = last'.args.other
           /\ last'.out.shares = {}]_vars

\* C5 witness: orthogonal, the one method that writes into an array, has
\* returned a vector that differs from its receiver.
C5_Witness ==
    /\ Returned
    /\ last.op = "orthogonal"
    /\ last.out.ret.kind = "vec"
    /\ last.out.ret.vec # self

\* C6: relative_heading computes delta = other - self and
\* angle = atan2(-delta.y, delta.x), adds heading (radians) to it when heading
\* is given, whatever the degrees flag, and only then converts to degrees
\* unless degrees is False; (1,0).relative_heading((1,1)) is -90 degrees.
C6_RelativeHeading ==
    (Returned /\ last.op = "relative_heading") =>
        LET dx == last.args.other[1] - self[1]
            dy == last.args.other[2] - self[2]
            bearing == arctan2(-dy, dx)
            radians == IF last.args.heading = None THEN bearing
                       ELSE bearing + last.args.heading[1]
        IN  /\ last.out.exc = "none"
            /\ last.out.ret =
                   Num(IF last.args.degrees THEN degrees(radians) ELSE radians)
            /\ (/\ self = np_array(<<1, 0>>)
                /\ last.args.other = np_array(<<1, 1>>)
                /\ last.args.heading = None
                /\ last.args.degrees)
                   => last.out.ret = Num(-90 * Scale)

\* C6 witness: (1,0).relative_heading((1,1), heading) was called with a heading
\* and with degrees left True.
C6_Witness ==
    /\ Returned
    /\ last.op = "relative_heading"
    /\ self = np_array(<<1, 0>>)
    /\ last.args.other = np_array(<<1, 1>>)
    /\ last.args.heading # None
    /\ last.args.degrees
    /\ last.out.ret.kind = "num"

\* C7: orthogonal returns (-uy, ux) for the unit vector (ux, uy) of its
\* receiver; for a receiver that is a unit vector the dot product with the
\* result is 0 and the result has length 1 (to within two units in the last
\* place), and orthogonal of the zero vector is the zero vector.
C7_Orthogonal ==
    (Returned /\ last.op = "orthogonal") =>
        LET u == unit(self)
            b == last.out.ret.vec
        IN  /\ last.out.exc = "none"
            /\ last.out.ret.kind = "vec"
            /\ b = <<-u[2], u[1]>>
            /\ length(self) = Scale =>
                   /\ Abs(np_dot(self, b)) <= 2
                   /\ Abs(length(b) - Scale) <= 2
            /\ length(self) = 0 => b = zero(last.klass).ret.vec

\* C7 witness: orthogonal was taken of a unit vector off the axes.
C7_Witness ==
    /\ Returned
    /\ last.op = "orthogonal"
    /\ length(self) = Scale
    /\ self[1] # 0
    /\ self[2] # 0
    /\ last.out.ret.kind = "vec"

\* C8: every vector rand returns has exactly two integer components, each in
\* [low, high), or in [0, low) when high is omitted.
C8_RandInRange ==
    (Returned /\ last.op = "rand" /\ last.out.exc = "none") =>
        LET lo == IF last.args.high = None THEN 0 ELSE last.args.low
            hi == IF last.args.high = None THEN last.args.low
                  ELSE last.args.high[1]
            v  == last.out.ret.vec
        IN  /\ last.out.ret.kind = "vec"
            /\ Len(v) = 2
            /\ \A i \in 1..2 :
                   /\ v[i] % Scale = 0
                   /\ lo * Scale <= v[i]
                   /\ v[i] < hi * Scale

\* C8 witness: rand(low) with high omitted returned the largest vector of its
\* range.
C8_Witness ==
    /\ Returned
    /\ last.op = "rand"
    /\ last.args.high = None
    /\ last.out.ret.kind = "vec"
    /\ last.out.ret.vec = np_array(<<last.args.low - 1, last.args.low - 1>>)
    /\ last.args.low > 1

\* The outcome of a call as its caller sees it.
Seen(o) == <<o.exc, o.ret>>

\* C9: angle is symmetric: for all nonzero a and b, angle(a, b) returns a
\* value and angle(b, a) returns the same value, on the arccos path and on
\* the NaN fallback path.
C9_AngleSymmetric ==
    (/\ Returned
     /\ last.op = "angle"
     /\ length(self) > 0
     /\ length(last.args.other) > 0) =>
        /\ last.out.exc = "none"
        /\ \E o \in angle(last.klass, last.args.other, self, last.args.degrees) :
               Seen(o) = Seen(last.out)

\* The other copy of the class.
OtherKlass(klass) == IF klass = "swarm" THEN "sarsim" ELSE "swarm"

\* C10: swarm contains the behaviour of sarsim: every operation both define
\* has the same outcomes in both on every input, the NaN fallback branch of
\* angle included: what a call does on one class, it can do on the other.
C10_SwarmContainsSarsim ==
    /\ (Returned /\ last.op = "angle") =>
           \E o \in angle(OtherKlass(last.klass), self, last.args.other,
                          last.args.degrees) : Seen(o) = Seen(last.out)
    /\ (Returned /\ last.op = "arr") =>
           last.out = arr(OtherKlass(last.klass), last.args.array)
    /\ (Returned /\ last.op = "arrp") =>
           last.out = arrp(OtherKlass(last.klass), last.args.coords)
    /\ (Returned /\ last.op = "rand") =>
           last.out \in rand(OtherKlass(last.klass), last.args.low,
                             last.args.high)
    /\ (Returned /\ last.op = "zero") =>
           last.out = zero(OtherKlass(last.klass))

====
